---- MODULE Spec2Model ----
(***************************************************************************)
(* A model of main_opensource.py: the in-memory news store, the RSS        *)
(* ingestion loop, the citation resolver, the sentiment colour, the report *)
(* renderer, the mail distribution loop and the top-level orchestration.   *)
(*                                                                         *)
(* Python strings are modelled as tuples of one-character strings, Python  *)
(* dicts and attribute bags as TLA+ functions whose DOMAIN is the set of   *)
(* keys that are present, so that a missing key is a missing key.          *)
(***************************************************************************)
EXTENDS Integers, Sequences, FiniteSets, TLC

VARIABLES
    items,        \* db.items: id -> stored item
    current_id,   \* db.current_id
    addRets,      \* history: the ids returned by the add calls that returned
    lastAdd,      \* history: the outcome of the latest add call
    feeds,        \* sources_dict in iteration order, each category with what its feed yields
    fetchRet,     \* the outcome of fetch_all_rss
    citeChunks,   \* the text given to process_citations, as the pieces it is made of
    citeOut,      \* the outcome of process_citations
    score,        \* the argument of get_sentiment_color
    color,        \* the outcome of get_sentiment_color
    ai_result,    \* the AnalysisResult given to generate_email_html
    html,         \* the outcome of generate_email_html
    receivers,    \* the recipient list
    subject,      \* send_email_to_list: the subject computed before the session
    session,      \* the SMTP session: "none", "open" or "closed"
    opened,       \* history: how many sessions were opened
    sent,         \* history: the messages handed to server.sendmail that it accepted
    sendIdx,      \* send_email_to_list: the position of r in receivers
    sendFail,     \* history: where the first exception of send_email_to_list came from
    pc,           \* where the run is
    config,       \* what load_config returns
    env_receiver, \* ENV_RECEIVER
    res,          \* what analyze_market_trends returned
    log           \* history: the stages that started, in order

storeVars == <<items, current_id>>
addVars == <<addRets, lastAdd>>
fetchVars == <<feeds, fetchRet>>
citeVars == <<citeChunks, citeOut>>
colorVars == <<score, color>>
renderVars == <<ai_result, html>>
sendVars == <<receivers, subject, session, opened, sent, sendIdx, sendFail>>
mainVars == <<pc, config, env_receiver, res, log>>

vars == <<storeVars, addVars, fetchVars, citeVars, colorVars, renderVars, sendVars,
          mainVars>>

-----------------------------------------------------------------------------
(* Bounds of the model *)

MaxAdds == 3
MaxSummaryOver == 1
MaxFeedOver == 1
MaxStore == 2
MaxChunks == 3
MaxAbsScore == 12
ScoreScale == 10
MaxPicks == 2
MaxReceivers == 3

-----------------------------------------------------------------------------
(* Strings *)

Min(a, b) == IF a < b THEN a ELSE b

IsSpace(c) == c \in {" ", "\t", "\n"}

RECURSIVE LStrip(_)
LStrip(s) == IF s # <<>> /\ IsSpace(Head(s)) THEN LStrip(Tail(s)) ELSE s

RECURSIVE RStrip(_)
RStrip(s) ==
    IF s # <<>> /\ IsSpace(s[Len(s)]) THEN RStrip(SubSeq(s, 1, Len(s) - 1)) ELSE s

\* str.strip()
Strip(s) == RStrip(LStrip(s))

\* a text of n characters whose characters vary with their position
MkText(n) == [i \in 1..n |-> IF i % 7 = 0 THEN "g" ELSE IF i % 3 = 0 THEN "c" ELSE "a"]

-----------------------------------------------------------------------------
(* NewsDatabase *)

SUMMARY_LIMIT == 250

\* s[:250]
ClipSummary(s) == SubSeq(s, 1, Min(Len(s), SUMMARY_LIMIT))

\* getattr(entry, name, default)
GetAttr(entry, name, default) == IF name \in DOMAIN entry THEN entry[name] ELSE default

\* NewsDatabase.__init__
EmptyDb == [items |-> <<>>, current_id |-> 1]

\* entry.title and entry.link raise AttributeError on an entry that lacks them,
\* before the store is touched
AddRaises(entry) == "title" \notin DOMAIN entry \/ "link" \notin DOMAIN entry

NewItem(id, source_name, entry) ==
    [id      |-> id,
     source  |-> source_name,
     title   |-> Strip(entry["title"]),
     link    |-> entry["link"],
     summary |-> ClipSummary(GetAttr(entry, "summary", <<>>))]

\* a plausible slip: the counter is not advanced, so the next add reuses the id
NewsDatabase_add_NoBump(db, source_name, entry) ==
    IF AddRaises(entry)
    THEN [raised |-> TRUE, db |-> db, ret |-> 0]
    ELSE [raised |-> FALSE,
          db     |-> [items |-> [k \in DOMAIN db.items \cup {db.current_id} |->
                                    IF k = db.current_id
                                    THEN NewItem(db.current_id, source_name, entry)
                                    ELSE db.items[k]],
                      current_id |-> db.current_id],
          ret    |-> db.current_id]

\* NewsDatabase.add: the call's outcome (raised or returned id) and the store after it
NewsDatabase_add(db, source_name, entry) ==
    IF AddRaises(entry)
    THEN [raised |-> TRUE, db |-> db, ret |-> 0]
    ELSE [raised |-> FALSE,
          db     |-> [items |-> [k \in DOMAIN db.items \cup {db.current_id} |->
                                    IF k = db.current_id
                                    THEN NewItem(db.current_id, source_name, entry)
                                    ELSE db.items[k]],
                      current_id |-> db.current_id + 1],
          ret    |-> (db.current_id + 1) - 1]

\* NewsDatabase.get_link_by_id
get_link_by_id(its, idx) == IF idx \in DOMAIN its THEN its[idx].link ELSE <<"#">>

-----------------------------------------------------------------------------
(* Raw feed entries: any of title, link and summary may be missing *)

Categories == {"Macro", "Tech"}

TitleChoices == {<<" ", "a", " ">>}
LinkChoices == {<<"u", "1">>, <<"u", "2">>}
SummaryChoices == {MkText(n) : n \in {3, SUMMARY_LIMIT, SUMMARY_LIMIT + MaxSummaryOver}}

\* the records over a subset of the three fields
RawEntries ==
    UNION {
        {[f \in flds |-> CASE f = "title" -> t [] f = "link" -> l [] f = "summary" -> s] :
            t \in TitleChoices, l \in LinkChoices, s \in SummaryChoices}
        : flds \in SUBSET {"title", "link", "summary"}}

-----------------------------------------------------------------------------
(* Decimal numerals: int(...) and the formatting of an int in an f-string *)

DigitChars == <<"0", "1", "2", "3", "4", "5", "6", "7", "8", "9">>

IsDigit(c) == \E d \in 1..Len(DigitChars) : DigitChars[d] = c

DigitVal(c) == (CHOOSE d \in 1..Len(DigitChars) : DigitChars[d] = c) - 1

\* int(s) for a non-empty run of digits
RECURSIVE ParseNat(_)
ParseNat(ds) ==
    IF ds = <<>> THEN 0
    ELSE ParseNat(SubSeq(ds, 1, Len(ds) - 1)) * Len(DigitChars) + DigitVal(ds[Len(ds)])

\* str(n) for n >= 0
RECURSIVE FormatNat(_)
FormatNat(n) ==
    IF n < Len(DigitChars) THEN <<DigitChars[n + 1]>>
    ELSE FormatNat(n \div Len(DigitChars)) \o <<DigitChars[(n % Len(DigitChars)) + 1]>>

-----------------------------------------------------------------------------
(* fetch_all_rss *)

MAX_ITEMS_PER_SOURCE == 10

\* the inner for loop over entries: db.add, then total_fetched += 1; an exception
\* raised by db.add leaves the loop with what was added so far
RECURSIVE AddEntries(_, _, _)
AddEntries(st, category, entries) ==
    IF entries = <<>> THEN [raised |-> FALSE, st |-> st]
    ELSE LET r == NewsDatabase_add(st.db, category, Head(entries))
         IN  IF r.raised THEN [raised |-> TRUE, st |-> st]
             ELSE AddEntries([db |-> r.db, total_fetched |-> st.total_fetched + 1],
                             category, Tail(entries))

\* the body of the try block for one category: parse, the emptiness test, the cap
TryCategory(st, category, feed) ==
    IF feed.fails THEN [raised |-> TRUE, st |-> st]
    ELSE IF feed.entries = <<>> THEN [raised |-> FALSE, st |-> st]
    ELSE AddEntries(st, category,
                    SubSeq(feed.entries, 1, Min(Len(feed.entries), MAX_ITEMS_PER_SOURCE)))

\* a plausible slip: no except clause, the first exception ends the whole fetch
RECURSIVE FetchLoop_NoExcept(_, _)
FetchLoop_NoExcept(st, fs) ==
    IF fs = <<>> THEN [raised |-> FALSE, st |-> st]
    ELSE LET b == TryCategory(st, Head(fs).category, Head(fs).feed)
         IN  IF b.raised THEN [raised |-> TRUE, st |-> b.st]
             ELSE FetchLoop_NoExcept(b.st, Tail(fs))

\* the for loop over sources_dict.items(): except Exception catches whatever the
\* body raised and the loop goes on with the next category
RECURSIVE FetchLoop(_, _)
FetchLoop(st, fs) ==
    IF fs = <<>> THEN [raised |-> FALSE, st |-> st]
    ELSE LET b == TryCategory(st, Head(fs).category, Head(fs).feed)
         IN  FetchLoop(b.st, Tail(fs))

\* fetch_all_rss(sources_dict) on store db: whether it raised, the store after it,
\* its return value
fetch_all_rss(db, fs) ==
    LET r == FetchLoop([db |-> db, total_fetched |-> 0], fs)
    IN  [raised |-> r.raised, db |-> r.st.db, ret |-> r.st.total_fetched]

-----------------------------------------------------------------------------
(* process_citations *)

Ch(c) == [c |-> c]

Chars(s) == [i \in 1..Len(s) |-> Ch(s[i])]

\* the text the f-string of replace_match produces: a space, then the anchor
\* with its href and its visible label [idx]
Anchor(link, idx) ==
    <<Ch(" "), [href |-> link, label |-> <<"[">> \o FormatNat(idx) \o <<"]">>]>>

RECURSIVE SkipSpaces(_, _)
SkipSpaces(t, p) == IF p <= Len(t) /\ IsSpace(t[p]) THEN SkipSpaces(t, p + 1) ELSE p

RECURSIVE SkipDigits(_, _)
SkipDigits(t, p) == IF p <= Len(t) /\ IsDigit(t[p]) THEN SkipDigits(t, p + 1) ELSE p

NoMatch == [ok |-> FALSE]

\* the pattern \[(?:ID\s*:?\s*)?(\d+)\] with re.IGNORECASE, tried at position p:
\* group 1 and the position of the closing bracket
MatchAt(t, p) ==
    IF p > Len(t) \/ t[p] # "[" THEN NoMatch
    ELSE LET q0 == p + 1
             hasId == q0 + 1 <= Len(t) /\ t[q0] \in {"i", "I"} /\ t[q0 + 1] \in {"d", "D"}
             q1 == IF hasId
                   THEN LET a == SkipSpaces(t, q0 + 2)
                            b == IF a <= Len(t) /\ t[a] = ":" THEN a + 1 ELSE a
                        IN  SkipSpaces(t, b)
                   ELSE q0
             q2 == SkipDigits(t, q1)
         IN  IF q2 > q1 /\ q2 <= Len(t) /\ t[q2] = "]"
             THEN [ok |-> TRUE, group1 |-> SubSeq(t, q1, q2 - 1), end |-> q2]
             ELSE NoMatch

\* a plausible slip: the link is read without the membership test, so an id that
\* was never assigned has no link to give
replace_match_NoGuard(its, group1) ==
    LET idx == ParseNat(group1)
    IN  Anchor(IF idx \in DOMAIN its THEN its[idx].link ELSE <<>>, idx)

\* replace_match
replace_match(its, group1) ==
    LET idx == ParseNat(group1)
        link == get_link_by_id(its, idx)
    IN  Anchor(link, idx)

\* re.sub: leftmost matches, left to right, never rescanning what it produced
RECURSIVE ReSub(_, _, _)
ReSub(its, t, p) ==
    IF p > Len(t) THEN <<>>
    ELSE LET m == MatchAt(t, p)
         IN  IF m.ok THEN replace_match(its, m.group1) \o ReSub(its, t, m.end + 1)
             ELSE <<Ch(t[p])>> \o ReSub(its, t, p + 1)

process_citations(its, text) == ReSub(its, text, 1)

-----------------------------------------------------------------------------
(* get_sentiment_color *)

STRONG_POSITIVE_MIN == 6
MILD_POSITIVE_MIN == 2
STRONG_NEGATIVE_MAX == -6
MILD_NEGATIVE_MAX == -2

COLOR_STRONG_POSITIVE == "#28a745"
COLOR_MILD_POSITIVE == "#5cdb5c"
COLOR_STRONG_NEGATIVE == "#dc3545"
COLOR_MILD_NEGATIVE == "#ff6b6b"
COLOR_NEUTRAL == "#6c757d"

\* A score is a JSON value: a number (kept in units of 1/ScoreScale), NaN, a
\* string or null.
Num(units) == [kind |-> "num", units |-> units]
Str(chars) == [kind |-> "str", chars |-> chars]
NaN == [kind |-> "nan"]
Null == [kind |-> "null"]

\* float(str): surrounding blanks are dropped, then an optional sign and digits
FloatOfStr(chars) ==
    LET s == Strip(chars)
        neg == s # <<>> /\ Head(s) = "-"
        ds == IF s # <<>> /\ Head(s) \in {"-", "+"} THEN Tail(s) ELSE s
    IN  IF ds # <<>> /\ \A i \in 1..Len(ds) : IsDigit(ds[i])
        THEN [ok |-> TRUE,
              units |-> (IF neg THEN -1 ELSE 1) * ParseNat(ds) * ScoreScale]
        ELSE [ok |-> FALSE]

\* float(score): ValueError on an unparsable string, TypeError on None
FloatOf(sc) ==
    CASE sc.kind = "num" -> [ok |-> TRUE, nan |-> FALSE, units |-> sc.units]
      [] sc.kind = "nan" -> [ok |-> TRUE, nan |-> TRUE]
      [] sc.kind = "str" ->
            LET f == FloatOfStr(sc.chars)
            IN  IF f.ok THEN [ok |-> TRUE, nan |-> FALSE, units |-> f.units]
                ELSE [ok |-> FALSE]
      [] OTHER -> [ok |-> FALSE]

\* a plausible slip: strict comparisons
get_sentiment_color_Strict(sc) ==
    LET f == FloatOf(sc)
    IN  IF ~f.ok THEN COLOR_NEUTRAL
        ELSE IF f.nan THEN COLOR_NEUTRAL
        ELSE IF f.units > STRONG_POSITIVE_MIN * ScoreScale THEN COLOR_STRONG_POSITIVE
        ELSE IF f.units > MILD_POSITIVE_MIN * ScoreScale THEN COLOR_MILD_POSITIVE
        ELSE IF f.units < STRONG_NEGATIVE_MAX * ScoreScale THEN COLOR_STRONG_NEGATIVE
        ELSE IF f.units < MILD_NEGATIVE_MAX * ScoreScale THEN COLOR_MILD_NEGATIVE
        ELSE COLOR_NEUTRAL

\* get_sentiment_color: the bare except gives neutral; every comparison with NaN
\* is false
get_sentiment_color(sc) ==
    LET f == FloatOf(sc)
    IN  IF ~f.ok THEN COLOR_NEUTRAL
        ELSE IF f.nan THEN COLOR_NEUTRAL
        ELSE IF f.units >= STRONG_POSITIVE_MIN * ScoreScale THEN COLOR_STRONG_POSITIVE
        ELSE IF f.units >= MILD_POSITIVE_MIN * ScoreScale THEN COLOR_MILD_POSITIVE
        ELSE IF f.units <= STRONG_NEGATIVE_MAX * ScoreScale THEN COLOR_STRONG_NEGATIVE
        ELSE IF f.units <= MILD_NEGATIVE_MAX * ScoreScale THEN COLOR_MILD_NEGATIVE
        ELSE COLOR_NEUTRAL

-----------------------------------------------------------------------------
(* generate_email_html *)

\* dict.get(key, default)
DictGet(d, key, default) == IF key \in DOMAIN d THEN d[key] ELSE default

\* str.replace("\n", "<br>")
RECURSIVE ReplaceNewlines(_)
ReplaceNewlines(s) ==
    IF s = <<>> THEN <<>>
    ELSE (IF Head(s) = "\n" THEN <<"<", "b", "r", ">">> ELSE <<Head(s)>>)
         \o ReplaceNewlines(Tail(s))

\* sub in s
Contains(s, sub) ==
    \E i \in 0..(Len(s) - Len(sub)) : SubSeq(s, i + 1, i + Len(sub)) = sub

TAG_DEFAULT == <<"N", "e", "u", "t", "r", "a", "l">>
LABEL_DEFAULT == <<"N", "e", "u", "t", "r", "a", "l">>
REASON_DEFAULT == <<"N", "o", " ", "d", "a", "t", "a">>

tag_color(tag) ==
    IF Contains(tag, <<"B", "u", "l", "l">>) THEN "#28a745"
    ELSE IF Contains(tag, <<"B", "e", "a", "r">>) THEN "#dc3545"
    ELSE "#6c757d"

Card(item, pick, tag) ==
    [tag |-> tag, tag_color |-> tag_color(tag), link |-> item.link,
     title |-> item.title, source |-> item.source, reason |-> pick["reason"]]

\* a plausible slip: the loop ends at the first pick whose id is not in the store
RECURSIVE RenderPicks_Break(_, _, _)
RenderPicks_Break(its, picks, picks_html) ==
    IF picks = <<>> THEN [raised |-> FALSE, picks_html |-> picks_html]
    ELSE LET pick == Head(picks)
         IN  IF "id" \notin DOMAIN pick THEN [raised |-> TRUE, error |-> "KeyError: id"]
             ELSE IF pick["id"] \in DOMAIN its
             THEN IF "reason" \notin DOMAIN pick
                  THEN [raised |-> TRUE, error |-> "KeyError: reason"]
                  ELSE RenderPicks_Break(its, Tail(picks),
                           Append(picks_html,
                                  Card(its[pick["id"]], pick,
                                       DictGet(pick, "tag", TAG_DEFAULT))))
             ELSE [raised |-> FALSE, picks_html |-> picks_html]

\* the for loop over top_picks: pick['id'] and pick['reason'] raise KeyError on a
\* pick that lacks them; the reason is read only for a pick whose id is stored
RECURSIVE RenderPicks(_, _, _)
RenderPicks(its, picks, picks_html) ==
    IF picks = <<>> THEN [raised |-> FALSE, picks_html |-> picks_html]
    ELSE LET pick == Head(picks)
         IN  IF "id" \notin DOMAIN pick THEN [raised |-> TRUE, error |-> "KeyError: id"]
             ELSE IF pick["id"] \in DOMAIN its
             THEN IF "reason" \notin DOMAIN pick
                  THEN [raised |-> TRUE, error |-> "KeyError: reason"]
                  ELSE RenderPicks(its, Tail(picks),
                           Append(picks_html,
                                  Card(its[pick["id"]], pick,
                                       DictGet(pick, "tag", TAG_DEFAULT))))
             ELSE RenderPicks(its, Tail(picks), picks_html)

\* generate_email_html(ai_result) on the store its, on the day today: the
\* exception it raised or the parts of the document it returned
generate_email_html(its, result, today) ==
    LET sc == DictGet(result, "sentiment_score", Num(0))
        label == DictGet(result, "sentiment_label", LABEL_DEFAULT)
        reason == DictGet(result, "sentiment_reason", REASON_DEFAULT)
        col == get_sentiment_color(sc)
        raw_analysis == ReplaceNewlines(DictGet(result, "analysis_html", <<>>))
        final_analysis == process_citations(its, raw_analysis)
        p == RenderPicks(its, DictGet(result, "top_picks", <<>>), <<>>)
    IN  IF p.raised THEN [called |-> TRUE, raised |-> TRUE, error |-> p.error]
        ELSE [called |-> TRUE, raised |-> FALSE, color |-> col, score |-> sc,
              label |-> label, reason |-> reason, final_analysis |-> final_analysis,
              picks_html |-> p.picks_html, today |-> today]

-----------------------------------------------------------------------------
(* generate_prompt_text and analyze_market_trends *)

\* one line per stored item, in the order of the dict, which is the order of insertion
RECURSIVE PromptLines(_, _)
PromptLines(its, k) ==
    IF k \notin DOMAIN its THEN <<>>
    ELSE <<[idx |-> k, title |-> its[k].title, source |-> its[k].source,
            context |-> its[k].summary]>> \o PromptLines(its, k + 1)

generate_prompt_text(its) == IF DOMAIN its = {} THEN <<>> ELSE PromptLines(its, 1)

PyNone == [py |-> "None"]

\* the truth value of None, of a dict and of a list
Truthy(v) == v # PyNone /\ v # <<>>

Garbage == [py |-> "not JSON"]

\* What the model call yields: an exception, or a reply whose text, with the
\* code fences removed, is body: a JSON value or text json.loads rejects.
ReplyFails == [fails |-> TRUE]
Reply(fenced, body) == [fails |-> FALSE, fenced |-> fenced, body |-> body]

\* analyze_market_trends: whether the model was invoked, and what is returned
analyze_market_trends(its, reply) ==
    IF generate_prompt_text(its) = <<>> THEN [invoked |-> FALSE, ret |-> PyNone]
    ELSE IF reply.fails \/ reply.body = Garbage THEN [invoked |-> TRUE, ret |-> PyNone]
    ELSE [invoked |-> TRUE, ret |-> reply.body]

-----------------------------------------------------------------------------
(* The recipient list of a run *)

\* str.split(",")
RECURSIVE SplitComma(_, _)
SplitComma(s, cur) ==
    IF s = <<>> THEN <<cur>>
    ELSE IF Head(s) = "," THEN <<cur>> \o SplitComma(Tail(s), <<>>)
    ELSE SplitComma(Tail(s), Append(cur, Head(s)))

\* [r.strip() for r in ENV_RECEIVER.split(',') if r.strip()]
secret_receivers(env) ==
    LET parts == SplitComma(env, <<>>)
        stripped == [i \in 1..Len(parts) |-> Strip(parts[i])]
    IN  SelectSeq(stripped, LAMBDA r : r # <<>>)

Range(f) == {f[x] : x \in DOMAIN f}

\* the lists that hold each element of S once
ListsOf(S) == {l \in [1..Cardinality(S) -> S] : Range(l) = S}

\* receivers as merged from the configuration and the environment, before the
\* deduplication
merged_receivers(cfg, env) ==
    DictGet(cfg, "receivers", <<>>) \o (IF env # <<>> THEN secret_receivers(env) ELSE <<>>)

-----------------------------------------------------------------------------
(* Inputs *)

\* the sequences over S of length at most n
SeqsUpTo(S, n) == UNION {[1..k -> S] : k \in 0..n}

RECURSIVE Flatten(_)
Flatten(ss) == IF ss = <<>> THEN <<>> ELSE Head(ss) \o Flatten(Tail(ss))

\* the dicts that hold key with one of the values vs, or do not hold it
Opt(key, vs) == {<<>>} \cup {[k \in {key} |-> v] : v \in vs}

\* Entry i of the feed of category c; a malformed entry lacks its title.
FeedEntry(c, i, malformed) ==
    LET e == [title   |-> <<" ", "t">> \o FormatNat(i) \o <<"\n">>,
              link    |-> <<c, "/">> \o FormatNat(i),
              summary |-> MkText(i)]
    IN  IF malformed THEN [k \in {"link", "summary"} |-> e[k]] ELSE e

FeedOf(c, n, bad) ==
    [fails |-> FALSE, entries |-> [i \in 1..n |-> FeedEntry(c, i, i = bad)]]

FeedFails == [fails |-> TRUE]

\* what a feed can yield: nothing (it fails, or parses to no entry), or n
\* entries of which the one at position bad, if any, is malformed
FeedOutcomes(c, lens, bads) ==
    {FeedFails}
    \cup UNION {{FeedOf(c, n, bad) : bad \in {b \in bads : b <= n}} : n \in lens}

\* the mappings from distinct categories to feeds, in the order of the dict
FeedMappings(lens, bads) ==
    {fs \in SeqsUpTo([category : Categories,
                      feed : UNION {FeedOutcomes(c, lens, bads) : c \in Categories}],
                     Cardinality(Categories)) :
        /\ \A i, j \in 1..Len(fs) : fs[i].category = fs[j].category => i = j
        /\ \A i \in 1..Len(fs) :
              fs[i].feed \in FeedOutcomes(fs[i].category, lens, bads)}

FetchLens ==
    {0, 1, 2, MAX_ITEMS_PER_SOURCE, MAX_ITEMS_PER_SOURCE + MaxFeedOver}

FetchBads == {0, 1, 2, MAX_ITEMS_PER_SOURCE, MAX_ITEMS_PER_SOURCE + 1}

\* the stores a fetch leaves behind: k items, ids 1..k
StoreAfter(k) == fetch_all_rss(EmptyDb, <<[category |-> "Macro", feed |-> FeedOf("Macro", k, 0)]>>).db

Stores == {StoreAfter(k) : k \in 0..MaxStore}

Dates == {<<"1", "1", "-", "0", "3">>, <<"1", "1", "-", "0", "4">>}

-----------------------------------------------------------------------------
(* Variables a specification does not use stay as they are here *)

IdleStore == items = EmptyDb.items /\ current_id = EmptyDb.current_id
IdleAdd == addRets = <<>> /\ lastAdd = [called |-> FALSE]
IdleFetch == feeds = <<>> /\ fetchRet = [called |-> FALSE]
IdleCite == citeChunks = <<>> /\ citeOut = [called |-> FALSE]
IdleColor == score = Num(0) /\ color = "none"
IdleRender == ai_result = <<>> /\ html = [called |-> FALSE]
IdleSend ==
    /\ receivers = <<>>
    /\ subject = <<>>
    /\ session = "none"
    /\ opened = 0
    /\ sent = <<>>
    /\ sendIdx = 0
    /\ sendFail = "none"
IdleMain ==
    /\ pc = "idle"
    /\ config = PyNone
    /\ env_receiver = <<>>
    /\ res = PyNone
    /\ log = <<>>

-----------------------------------------------------------------------------
(* The store: any sequence of add calls *)

InitStore ==
    /\ IdleStore /\ IdleAdd /\ IdleFetch /\ IdleCite /\ IdleColor /\ IdleRender
    /\ IdleSend /\ IdleMain

Add(source_name, entry) ==
    LET r == NewsDatabase_add([items |-> items, current_id |-> current_id],
                              source_name, entry)
    IN  /\ Len(addRets) < MaxAdds
        /\ items' = r.db.items
        /\ current_id' = r.db.current_id
        /\ addRets' = IF r.raised THEN addRets ELSE Append(addRets, r.ret)
        /\ lastAdd' = [called |-> TRUE, raised |-> r.raised, ret |-> r.ret,
                       entry |-> entry]
        /\ UNCHANGED <<fetchVars, citeVars, colorVars, renderVars, sendVars, mainVars>>

NextStore == \E c \in Categories, e \in RawEntries : Add(c, e)

SpecStore == InitStore /\ [][NextStore]_vars

-----------------------------------------------------------------------------
(* Ingestion: fetch_all_rss on any mapping of categories to feeds *)

InitFetch ==
    /\ IdleStore /\ IdleAdd /\ IdleCite /\ IdleColor /\ IdleRender /\ IdleSend /\ IdleMain
    /\ feeds \in FeedMappings(FetchLens, FetchBads)
    /\ fetchRet = [called |-> FALSE]

FetchAllRss ==
    LET r == fetch_all_rss([items |-> items, current_id |-> current_id], feeds)
    IN  /\ ~fetchRet.called
        /\ items' = r.db.items
        /\ current_id' = r.db.current_id
        /\ fetchRet' = [called |-> TRUE, raised |-> r.raised, ret |-> r.ret]
        /\ UNCHANGED <<feeds, addVars, citeVars, colorVars, renderVars, sendVars, mainVars>>

NextFetch == FetchAllRss

SpecFetch == InitFetch /\ [][NextFetch]_vars

-----------------------------------------------------------------------------
(* Citations: process_citations on any store and any text *)

\* The pieces a text is made of.  A marker is a citation in one of the
\* spellings; n is the id it cites and label the way that id is written out.
Marker(prefix, digits, n, label) ==
    [kind |-> "marker", chars |-> <<"[">> \o prefix \o digits \o <<"]">>,
     n |-> n, label |-> label]
\* prose without brackets
Word(chars) == [kind |-> "word", chars |-> chars]
\* bracketed text that is no citation
Inert(chars) == [kind |-> "inert", chars |-> chars]
\* a bracket on its own: with its neighbours it may or may not make a citation
Stray(chars) == [kind |-> "stray", chars |-> chars]

ChunkChoices ==
    {Marker(<<>>, <<"1">>, 1, <<"[", "1", "]">>),
     Marker(<<"I", "D", ":">>, <<"2">>, 2, <<"[", "2", "]">>),
     Marker(<<"i", "d", ":", " ">>, <<"3">>, 3, <<"[", "3", "]">>),
     Marker(<<"I", "d", " ", ":">>, <<"0", "7">>, 7, <<"[", "7", "]">>),
     Word(<<"a", "b">>), Word(<<" ">>), Word(<<"1">>), Word(<<"I", "D", ":">>),
     Inert(<<"[", "x", "]">>), Inert(<<"[", "I", "D", ":", "]">>),
     Stray(<<"[">>), Stray(<<"]">>)}

TextOf(chunks) == Flatten([i \in 1..Len(chunks) |-> chunks[i].chars])

InitCite ==
    /\ IdleAdd /\ IdleFetch /\ IdleColor /\ IdleRender /\ IdleSend /\ IdleMain
    /\ \E db \in Stores : items = db.items /\ current_id = db.current_id
    /\ citeChunks \in SeqsUpTo(ChunkChoices, MaxChunks)
    /\ citeOut = [called |-> FALSE]

ProcessCitations ==
    /\ ~citeOut.called
    /\ citeOut' = [called |-> TRUE, out |-> process_citations(items, TextOf(citeChunks))]
    /\ UNCHANGED <<citeChunks, storeVars, addVars, fetchVars, colorVars, renderVars,
                   sendVars, mainVars>>

NextCite == ProcessCitations

SpecCite == InitCite /\ [][NextCite]_vars

-----------------------------------------------------------------------------
(* The sentiment colour: get_sentiment_color on any score *)

ScoreInputs ==
    {Num(u) : u \in (-(MaxAbsScore * ScoreScale))..(MaxAbsScore * ScoreScale)}
    \cup {NaN, Null, Str(<<"a", "b", "c">>), Str(<<>>), Str(<<" ", "7", " ">>),
          Str(<<"-", "8">>), Str(<<"3">>), Str(<<"7", "x">>)}

InitColor ==
    /\ IdleStore /\ IdleAdd /\ IdleFetch /\ IdleCite /\ IdleRender /\ IdleSend /\ IdleMain
    /\ score \in ScoreInputs
    /\ color = "none"

GetSentimentColor ==
    /\ color = "none"
    /\ color' = get_sentiment_color(score)
    /\ UNCHANGED <<score, storeVars, addVars, fetchVars, citeVars, renderVars, sendVars,
                   mainVars>>

NextColor == GetSentimentColor

SpecColor == InitColor /\ [][NextColor]_vars

-----------------------------------------------------------------------------
(* Rendering: generate_email_html on any store and any AnalysisResult *)

Bullish == <<"B", "u", "l", "l", "i", "s", "h">>
Bearish == <<"B", "e", "a", "r", "i", "s", "h">>
Hold == <<"H", "o", "l", "d">>

\* a pick holds any of id, reason and tag; id 9 is in no store
PickChoices ==
    {[id |-> 1, reason |-> <<"p">>, tag |-> Bullish],
     [id |-> 2, reason |-> <<"q">>, tag |-> Bearish],
     [id |-> 9, reason |-> <<"z">>, tag |-> Hold],
     [id |-> 1, reason |-> <<"p">>],
     [id |-> 2, tag |-> Bearish],
     [id |-> 9],
     [reason |-> <<"p">>, tag |-> Bullish],
     <<>>}

AnalysisTexts ==
    {<<>>, <<"a", "\n", "[", "1", "]", " ", "[", "I", "D", ":", "9", "]">>}

RenderInputs ==
    {a @@ b @@ c @@ d @@ e :
        a \in Opt("sentiment_score", {Num(7 * ScoreScale), Str(<<"a", "b", "c">>)}),
        b \in Opt("sentiment_label", {<<"B", "u", "l", "l">>}),
        c \in Opt("sentiment_reason", {<<"w">>}),
        d \in Opt("analysis_html", AnalysisTexts),
        e \in Opt("top_picks", SeqsUpTo(PickChoices, MaxPicks))}

InitRender ==
    /\ IdleAdd /\ IdleFetch /\ IdleCite /\ IdleColor /\ IdleSend /\ IdleMain
    /\ \E db \in Stores : items = db.items /\ current_id = db.current_id
    /\ ai_result \in RenderInputs
    /\ html = [called |-> FALSE]

GenerateEmailHtml(today) ==
    /\ ~html.called
    /\ html' = generate_email_html(items, ai_result, today)
    /\ UNCHANGED <<ai_result, storeVars, addVars, fetchVars, citeVars, colorVars,
                   sendVars, mainVars>>

NextRender == \E today \in Dates : GenerateEmailHtml(today)

SpecRender == InitRender /\ [][NextRender]_vars

-----------------------------------------------------------------------------
(* Distribution: send_email_to_list, one step per call that can fail *)

SENDER_EMAIL == <<"s", "@", "x">>

Addresses == {<<"a", "@", "x">>, <<"b", "@", "x">>}

\* the MIMEText built for recipient r
Message(r, subj, body) ==
    [From |-> SENDER_EMAIL, To |-> r, Subject |-> subj, Body |-> body]

\* the empty-list test, then the subject, computed once from the clock
SendBegin(date_str) ==
    /\ pc = "send_begin"
    /\ IF receivers = <<>>
       THEN pc' = "send_returned" /\ UNCHANGED subject
       ELSE pc' = "connect" /\ subject' = <<"S", "(">> \o date_str \o <<")">>
    /\ UNCHANGED <<receivers, session, opened, sent, sendIdx, sendFail, storeVars,
                   addVars, fetchVars, citeVars, colorVars, renderVars, config,
                   env_receiver, res, log>>

\* smtplib.SMTP_SSL(...): a session, or an exception that the except clause takes
Connect(ok) ==
    /\ pc = "connect"
    /\ IF ok
       THEN /\ session' = "open"
            /\ opened' = opened + 1
            /\ log' = Append(log, "session")
            /\ pc' = "login"
            /\ UNCHANGED sendFail
       ELSE /\ sendFail' = "connect"
            /\ pc' = "send_returned"
            /\ UNCHANGED <<session, opened, log>>
    /\ UNCHANGED <<receivers, subject, sent, sendIdx, storeVars, addVars, fetchVars,
                   citeVars, colorVars, renderVars, config, env_receiver, res>>

\* server.login(...)
Login(ok) ==
    /\ pc = "login"
    /\ IF ok
       THEN pc' = "loop" /\ sendIdx' = 1 /\ UNCHANGED sendFail
       ELSE pc' = "send_returned" /\ sendFail' = "login" /\ UNCHANGED sendIdx
    /\ UNCHANGED <<receivers, subject, session, opened, sent, storeVars, addVars,
                   fetchVars, citeVars, colorVars, renderVars, config, env_receiver,
                   res, log>>

\* a plausible slip: a failed send is skipped and the loop goes on
SendMail_SkipFailed(ok) ==
    /\ pc = "loop"
    /\ sent' = IF ok THEN Append(sent, Message(receivers[sendIdx], subject, html))
               ELSE sent
    /\ sendFail' = IF ok THEN sendFail ELSE "send"
    /\ sendIdx' = sendIdx + 1
    /\ pc' = IF sendIdx + 1 > Len(receivers) THEN "quit" ELSE "loop"
    /\ UNCHANGED <<receivers, subject, session, opened, storeVars, addVars, fetchVars,
                   citeVars, colorVars, renderVars, config, env_receiver, res, log>>

\* one turn of the for loop: the message for receivers[sendIdx], server.sendmail,
\* the pause; an exception leaves the loop for the except clause
SendMail(ok) ==
    /\ pc = "loop"
    /\ IF ok
       THEN /\ sent' = Append(sent, Message(receivers[sendIdx], subject, html))
            /\ sendIdx' = sendIdx + 1
            /\ pc' = IF sendIdx + 1 > Len(receivers) THEN "quit" ELSE "loop"
            /\ UNCHANGED sendFail
       ELSE /\ sendFail' = "send"
            /\ pc' = "send_returned"
            /\ UNCHANGED <<sent, sendIdx>>
    /\ UNCHANGED <<receivers, subject, session, opened, storeVars, addVars, fetchVars,
                   citeVars, colorVars, renderVars, config, env_receiver, res, log>>

\* server.quit(), the one place where the session is closed; if it raises, the
\* except clause takes over and the library alone decides what became of the session
Quit(ok) ==
    /\ pc = "quit"
    /\ IF ok
       THEN session' = "closed" /\ UNCHANGED sendFail
       ELSE session' \in {"open", "closed"} /\ sendFail' = "quit"
    /\ pc' = "send_returned"
    /\ UNCHANGED <<receivers, subject, opened, sent, sendIdx, storeVars, addVars,
                   fetchVars, citeVars, colorVars, renderVars, config, env_receiver,
                   res, log>>

SendSteps ==
    \/ \E d \in Dates : SendBegin(d)
    \/ \E ok \in BOOLEAN : Connect(ok)
    \/ \E ok \in BOOLEAN : Login(ok)
    \/ \E ok \in BOOLEAN : SendMail(ok)
    \/ \E ok \in BOOLEAN : Quit(ok)

\* a rendered document to send
SampleHtml ==
    generate_email_html(StoreAfter(1).items,
                        [analysis_html |-> <<"[", "1", "]">>,
                         top_picks |-> <<[id |-> 1, reason |-> <<"p">>, tag |-> Bullish]>>],
                        <<"2", "0", "2", "6">>)

InitSend ==
    /\ IdleStore /\ IdleAdd /\ IdleFetch /\ IdleCite /\ IdleColor
    /\ ai_result = <<>>
    /\ html = SampleHtml
    /\ receivers \in SeqsUpTo(Addresses, MaxReceivers)
    /\ subject = <<>>
    /\ session = "none"
    /\ opened = 0
    /\ sent = <<>>
    /\ sendIdx = 0
    /\ sendFail = "none"
    /\ pc = "send_begin"
    /\ config = PyNone
    /\ env_receiver = <<>>
    /\ res = PyNone
    /\ log = <<>>

NextSend == SendSteps

SpecSend == InitSend /\ [][NextSend]_vars

-----------------------------------------------------------------------------
(* The run: the statements under __main__ *)

MainLens == {0, 1, 2}
MainBads == {0, 2}

ReceiverLists ==
    {<<>>, <<<<"a", "@", "x">>>>, <<<<"a", "@", "x">>, <<"b", "@", "x">>>>,
     <<<<"a", "@", "x">>, <<"a", "@", "x">>>>}

EnvChoices ==
    {<<>>, <<"a", "@", "x">>, <<" ", "b", "@", "x", " ", ",", " ", ",", "a", "@", "x">>,
     <<" ", ",">>}

Configs ==
    {PyNone}
    \cup {a @@ b : a \in Opt("rss_sources", FeedMappings(MainLens, MainBads)),
                   b \in Opt("receivers", ReceiverLists)}

\* the values json.loads can give for the reply of the model
ReplyBodies ==
    {Garbage,
     <<>>,
     [sentiment_score |-> Num(55), analysis_html |-> <<"[", "1", "]">>,
      top_picks |-> <<[id |-> 1, reason |-> <<"p">>, tag |-> Bullish]>>],
     [top_picks |-> <<[reason |-> <<"p">>, tag |-> Bullish]>>]}

Replies == {ReplyFails} \cup {Reply(f, b) : f \in BOOLEAN, b \in ReplyBodies}

Init ==
    /\ IdleStore /\ IdleAdd /\ IdleFetch /\ IdleCite /\ IdleColor /\ IdleRender /\ IdleSend
    /\ pc = "config"
    /\ config \in Configs
    /\ env_receiver \in EnvChoices
    /\ res = PyNone
    /\ log = <<>>

\* load_config, rss_sources, the merge of the recipients and its deduplication
\* (a set has no order of its own), and the two exits
MainConfig ==
    /\ pc = "config"
    /\ IF ~Truthy(config)
       THEN pc' = "exit1" /\ UNCHANGED <<feeds, receivers>>
       ELSE /\ feeds' = DictGet(config, "rss_sources", <<>>)
            /\ receivers' \in ListsOf(Range(merged_receivers(config, env_receiver)))
            /\ pc' = IF feeds' = <<>> THEN "exit1" ELSE "fetch"
    /\ UNCHANGED <<fetchRet, subject, session, opened, sent, sendIdx, sendFail,
                   storeVars, addVars, citeVars, colorVars, renderVars, config,
                   env_receiver, res, log>>

\* if fetch_all_rss(rss_sources) > 0
MainFetch ==
    LET r == fetch_all_rss([items |-> items, current_id |-> current_id], feeds)
    IN  /\ pc = "fetch"
        /\ items' = r.db.items
        /\ current_id' = r.db.current_id
        /\ fetchRet' = [called |-> TRUE, raised |-> r.raised, ret |-> r.ret]
        /\ log' = Append(log, "ingest")
        /\ pc' = IF r.raised THEN "crashed" ELSE IF r.ret > 0 THEN "analyze" ELSE "done"
        /\ UNCHANGED <<feeds, addVars, citeVars, colorVars, renderVars, sendVars, config,
                       env_receiver, res>>

\* a plausible slip: neither res nor receivers is tested
MainAnalyze_NoTest(reply) ==
    LET a == analyze_market_trends(items, reply)
    IN  /\ pc = "analyze"
        /\ res' = a.ret
        /\ log' = IF a.invoked THEN Append(log, "model") ELSE log
        /\ pc' = "render"
        /\ UNCHANGED <<storeVars, addVars, fetchVars, citeVars, colorVars, renderVars,
                       sendVars, config, env_receiver>>

\* res = analyze_market_trends(); if res: if receivers: ... else: ...
MainAnalyze(reply) ==
    LET a == analyze_market_trends(items, reply)
    IN  /\ pc = "analyze"
        /\ res' = a.ret
        /\ log' = IF a.invoked THEN Append(log, "model") ELSE log
        /\ pc' = IF Truthy(a.ret) /\ receivers # <<>> THEN "render" ELSE "done"
        /\ UNCHANGED <<storeVars, addVars, fetchVars, citeVars, colorVars, renderVars,
                       sendVars, config, env_receiver>>

\* html = generate_email_html(res): nothing catches what it raises
MainRender(today) ==
    /\ pc = "render"
    /\ html' = generate_email_html(items, res, today)
    /\ ai_result' = res
    /\ log' = Append(log, "render")
    /\ pc' = IF html'.raised THEN "crashed" ELSE "send_begin"
    /\ UNCHANGED <<storeVars, addVars, fetchVars, citeVars, colorVars, sendVars, config,
                   env_receiver, res>>

Next ==
    \/ MainConfig
    \/ MainFetch
    \/ \E reply \in Replies : MainAnalyze(reply)
    \/ \E today \in Dates : MainRender(today)
    \/ SendSteps

Spec == Init /\ [][Next]_vars

-----------------------------------------------------------------------------
(* Properties *)

C1_StoreShape ==
    /\ DOMAIN items = 1..Len(addRets)
    /\ \A k \in 1..Len(addRets) : addRets[k] = k
    /\ \A k \in DOMAIN items : items[k].id = k

C1_NoReassign == \A k \in DOMAIN items : k \in DOMAIN items' /\ items'[k] = items[k]

\* C1: after any sequence of add calls, raising ones included, the keys of the
\* store are 1..n for the n adds that returned, the k-th of them returned k, every
\* stored item's id is its key, and no step changes or drops a stored item.
C1_DenseStableIds == [](C1_StoreShape) /\ [][C1_NoReassign]_vars

\* two categories stored, then a call that raised
C1_Witness ==
    /\ Len(addRets) >= 2
    /\ items[1].source # items[2].source
    /\ lastAdd.called
    /\ lastAdd.raised

\* C5: add never fails: every call returns the next id and stores the entry's
\* summary clipped to SUMMARY_LIMIT characters, or the empty string when the
\* entry has none.
C5_AddNeverFails ==
    lastAdd.called =>
        /\ ~lastAdd.raised
        /\ lastAdd.ret = current_id - 1
        /\ lastAdd.ret \in DOMAIN items
        /\ LET given == IF "summary" \in DOMAIN lastAdd.entry
                        THEN lastAdd.entry["summary"] ELSE <<>>
               kept == items[lastAdd.ret].summary
           IN  /\ Len(kept) <= 250
               /\ Len(kept) = Min(Len(given), 250)
               /\ \A i \in 1..Len(kept) : kept[i] = given[i]

WellFormed(e) == {"title", "link"} \subseteq DOMAIN e

\* how many entries of a feed are to be in the store: none of a failing feed,
\* else the leading well-formed ones among its first ten
C6_Count(feed) ==
    IF feed.fails THEN 0
    ELSE LET lim == Min(Len(feed.entries), 10)
         IN  CHOOSE n \in 0..lim :
                /\ \A i \in 1..n : WellFormed(feed.entries[i])
                /\ n = lim \/ ~WellFormed(feed.entries[n + 1])

RECURSIVE C6_Offset(_)
C6_Offset(j) == IF j <= 1 THEN 0 ELSE C6_Offset(j - 1) + C6_Count(feeds[j - 1].feed)

\* C6: whichever feeds fail or are empty, fetch_all_rss does not raise, every
\* category is ingested in the order of the mapping, each category adds at most
\* ten entries, the first of its feed in feed order under its label (all of the
\* first ten when these are well formed), and the value returned is the number
\* of items added to the store.
C6_FetchTolerant ==
    fetchRet.called =>
        /\ ~fetchRet.raised
        /\ fetchRet.ret = Cardinality(DOMAIN items)
        /\ fetchRet.ret = C6_Offset(Len(feeds) + 1)
        /\ \A j \in 1..Len(feeds) :
              LET feed == feeds[j].feed
                  n == C6_Count(feed)
                  off == C6_Offset(j)
              IN  /\ n <= 10
                  /\ (~feed.fails /\ \A i \in 1..Len(feed.entries) :
                                        WellFormed(feed.entries[i]))
                        => n = Min(Len(feed.entries), 10)
                  /\ {k \in DOMAIN items : items[k].source = feeds[j].category}
                        = (off + 1)..(off + n)
                  /\ \A i \in 1..n :
                        /\ items[off + i].link = feed.entries[i]["link"]
                        /\ items[off + i].title = Strip(feed.entries[i]["title"])

\* a failing feed first, then a feed of more than ten entries, all ingested up to the cap
C6_Witness ==
    /\ fetchRet.called
    /\ Len(feeds) = 2
    /\ feeds[1].feed.fails
    /\ ~feeds[2].feed.fails
    /\ Len(feeds[2].feed.entries) > 10
    /\ fetchRet.ret = 10

C2_Expected(ch) ==
    IF ch.kind = "marker"
    THEN <<Ch(" "),
           [href |-> IF ch.n \in DOMAIN items THEN items[ch.n].link ELSE <<"#">>,
            label |-> ch.label]>>
    ELSE Chars(ch.chars)

C2_IsAnchor(x) == "href" \in DOMAIN x

C2_Count(seq, P(_)) == Cardinality({i \in 1..Len(seq) : P(seq[i])})

C2_IsMarker(ch) == ch.kind = "marker"

\* C2: in a text made of citations in the supported spellings, prose and
\* bracketed text that is no citation, each citation is replaced by one link
\* labelled with its id whose href is the stored link, or "#" for an id never
\* assigned, and everything else is kept; in any text every citation becomes a
\* link to a stored link or "#", and a text without an opening bracket is
\* returned as it is.
C2_CitationsResolved ==
    citeOut.called =>
        LET text == TextOf(citeChunks)
            out == citeOut.out
        IN  /\ (\A i \in 1..Len(citeChunks) : citeChunks[i].kind # "stray")
                  => out = Flatten([i \in 1..Len(citeChunks) |->
                                       C2_Expected(citeChunks[i])])
            /\ C2_Count(out, C2_IsAnchor) >= C2_Count(citeChunks, C2_IsMarker)
            /\ \A i \in 1..Len(out) :
                  C2_IsAnchor(out[i]) =>
                      out[i].href \in {items[k].link : k \in DOMAIN items} \cup {<<"#">>}
            /\ (\A i \in 1..Len(text) : text[i] # "[") => out = Chars(text)

\* the same known id cited twice, and an id never assigned
C2_Witness ==
    /\ citeOut.called
    /\ Len(citeChunks) = 3
    /\ \A i \in 1..3 : citeChunks[i].kind = "marker"
    /\ citeChunks[1] = citeChunks[2]
    /\ citeChunks[1].n \in DOMAIN items
    /\ citeChunks[3].n \notin DOMAIN items
    /\ C2_Count(citeOut.out, C2_IsAnchor) = 3

C9_Units(sc) ==
    CASE sc = Str(<<" ", "7", " ">>) -> 7 * ScoreScale
      [] sc = Str(<<"-", "8">>) -> (-8) * ScoreScale
      [] sc = Str(<<"3">>) -> 3 * ScoreScale
      [] OTHER -> sc.units

C9_Numeric(sc) ==
    sc.kind = "num" \/ sc \in {Str(<<" ", "7", " ">>), Str(<<"-", "8">>), Str(<<"3">>)}

\* C9: a score of 6 or more is strong-positive, from 2 up to 6 mild-positive, of
\* -6 or less strong-negative, above -6 down to -2 mild-negative, anything
\* between neutral, within [-10, 10] or outside it; 7, 3, -8 and 0 give
\* strong-positive, mild-positive, strong-negative and neutral; a score that is
\* no number gives neutral.
C9_ColorThresholds ==
    color # "none" =>
        /\ C9_Numeric(score) =>
              LET u == C9_Units(score)
              IN  /\ u >= 6 * ScoreScale => color = "#28a745"
                  /\ (u >= 2 * ScoreScale /\ u < 6 * ScoreScale) => color = "#5cdb5c"
                  /\ u <= (-6) * ScoreScale => color = "#dc3545"
                  /\ (u <= (-2) * ScoreScale /\ u > (-6) * ScoreScale) => color = "#ff6b6b"
                  /\ (u > (-2) * ScoreScale /\ u < 2 * ScoreScale) => color = "#6c757d"
        /\ score = Num(7 * ScoreScale) => color = "#28a745"
        /\ score = Num(3 * ScoreScale) => color = "#5cdb5c"
        /\ score = Num((-8) * ScoreScale) => color = "#dc3545"
        /\ score = Num(0) => color = "#6c757d"
        /\ ~C9_Numeric(score) => color = "#6c757d"

\* the boundary score 6
C9_Witness == color = "#28a745" /\ score = Num(6 * ScoreScale)

C3_Picks == DictGet(ai_result, "top_picks", <<>>)

\* the positions of the picks whose id is held by the store
C3_Valid ==
    {i \in 1..Len(C3_Picks) :
        "id" \in DOMAIN C3_Picks[i] /\ C3_Picks[i]["id"] \in DOMAIN items}

\* C3: when every pick has an id and every pick whose id is stored has a reason,
\* generate_email_html returns, and whenever it returns the cards are those of
\* the picks whose id is in the store, one each in the order of top_picks, with
\* the item's title, link and source and the pick's reason and tag; a pick with
\* an id that is not in the store gives no card and hides no other.
C3_CardsForKnownPicks ==
    html.called =>
        /\ (\A i \in 1..Len(C3_Picks) :
               /\ "id" \in DOMAIN C3_Picks[i]
               /\ i \in C3_Valid => "reason" \in DOMAIN C3_Picks[i])
              => ~html.raised
        /\ ~html.raised =>
              /\ Len(html.picks_html) = Cardinality(C3_Valid)
              /\ \A i \in C3_Valid :
                    LET card == html.picks_html[Cardinality({j \in C3_Valid : j <= i})]
                        item == items[C3_Picks[i]["id"]]
                    IN  /\ card.title = item.title
                        /\ card.link = item.link
                        /\ card.source = item.source
                        /\ card.reason = C3_Picks[i]["reason"]
                        /\ card.tag = DictGet(C3_Picks[i], "tag", <<"N", "e", "u", "t", "r", "a", "l">>)

\* a pick with an id unknown to the store, followed by a pick that is rendered
C3_Witness ==
    /\ html.called
    /\ ~html.raised
    /\ Len(C3_Picks) = 2
    /\ "id" \in DOMAIN C3_Picks[1]
    /\ C3_Picks[1]["id"] \notin DOMAIN items
    /\ 2 \in C3_Valid
    /\ Len(html.picks_html) = 1

\* C4: generate_email_html returns a document for every AnalysisResult,
\* whichever fields of it and of its picks are absent.
C4_RenderNeverRaises == html.called => ~html.raised

C7_Stages == <<"ingest", "model", "render", "session">>

C7_Started(stage) == \E i \in 1..Len(log) : log[i] = stage

\* C7: the stages start in the order ingest, analyze, render, send, each at most
\* once; the model is invoked only after a fetch that returned more than zero,
\* rendering starts only with a result of the analysis and a non-empty recipient
\* list, a session is opened only after a rendering that returned, for a
\* deduplicated non-empty recipient list, messages are sent only in a session,
\* and a run that ingested nothing, whose analysis failed or that has no
\* recipient ends without error and without a session or a message.
C7_StagesInOrder ==
    /\ Len(log) <= Len(C7_Stages)
    /\ \A i \in 1..Len(log) : log[i] = C7_Stages[i]
    /\ C7_Started("model") => fetchRet.called /\ fetchRet.ret > 0
    /\ C7_Started("render") => C7_Started("model") /\ Truthy(res) /\ receivers # <<>>
    /\ C7_Started("session") =>
          /\ html.called /\ ~html.raised
          /\ receivers # <<>>
          /\ \A i, j \in 1..Len(receivers) : receivers[i] = receivers[j] => i = j
    /\ (sent # <<>> \/ opened > 0) => C7_Started("session")
    /\ opened <= 1
    /\ (/\ pc \in {"done", "crashed", "send_returned"}
        /\ fetchRet.ret = 0 \/ res = PyNone \/ receivers = <<>>)
          => pc = "done" /\ sent = <<>> /\ opened = 0

\* a run that went through every stage and sent to two recipients
C7_Witness ==
    /\ pc = "send_returned"
    /\ log = C7_Stages
    /\ Len(sent) = 2

C8_Expected ==
    CASE sendFail \in {"none", "quit"} -> Len(receivers)
      [] sendFail = "send" -> sendIdx - 1
      [] OTHER -> 0

\* C8: send_email_to_list opens at most one session; the messages sent are, in
\* list order, one for each of the first recipients, all with the one subject and
\* body; after the first failure nothing more is done; on return the recipients
\* served are exactly those before the first failure, all of them when nothing
\* failed; the function returns in every case.
C8_SendUntilFirstFailure ==
    /\ opened <= 1
    /\ Len(sent) <= Len(receivers)
    /\ \A i \in 1..Len(sent) : sent[i] = Message(receivers[i], subject, html)
    /\ sendFail # "none" => pc = "send_returned"
    /\ pc = "send_returned" => Len(sent) = C8_Expected
    /\ (pc = "send_returned" /\ sendFail = "none" /\ receivers # <<>>) =>
          opened = 1 /\ \A i \in 1..Len(receivers) : sent[i].To = receivers[i]

\* the second of three sends failed
C8_Witness ==
    /\ pc = "send_returned"
    /\ Len(receivers) = 3
    /\ sendFail = "send"
    /\ sendIdx = 2
    /\ Len(sent) = 1

\* C10: a session that send_email_to_list opened is closed when it returns.
C10_SessionClosedOnReturn == pc = "send_returned" => session # "open"

====
